---- MODULE Spec2Model ----
(***************************************************************************)
(* Model of the debris simulation of VRRaumschrottmann: GarbageField,      *)
(* LaserTool, Player (carrier), GarbageCollector (collection zones) and    *)
(* the per-frame order of SceneManager.update.                             *)
(*                                                                         *)
(* Units.  Lengths are integers in decimetres (0.1 world units),           *)
(* velocities in decimetres per second, times in milliseconds.  Products   *)
(* are formed before the division by the scale, and a division truncates   *)
(* towards zero (TDiv), so every formula below reads as the JavaScript     *)
(* formula with its constants multiplied by the scale.                     *)
(*                                                                         *)
(* The repository holds two LaserTool sources that differ in behaviour:    *)
(* src/src/core/LaserTool.js ("core") and src/unnamed/part_003 lines 1-358 *)
(* ("xr").  The variable variant says which one the build uses.  It also   *)
(* holds two scene managers: src/src/core/SceneManager.js with its         *)
(* orbiting GarbageCollector zones ("collectors") and the one of           *)
(* src/unnamed/part_004 with the CollectorPit ("pit").  The variable scene *)
(* says which one runs.  Both are chosen in Init and never change.         *)
(***************************************************************************)
EXTENDS Integers, Sequences, FiniteSets, TLC

(***************************************************************************)
(* Bounds of the model                                                     *)
(***************************************************************************)
\* number of debris the field is populated with (this.count, 18 in the source)
count == 2
\* user input events explored when the user is free to act at any frame
MaxInputs == 2
\* frames explored when the user is free to act at any frame
MaxFrames == 11
\* frames explored after the last event of a scripted session
ScriptTail == 34
\* round duration in ms (this.roundDuration, 60 s in the source)
roundDuration == 300
\* debris farther than this from the origin (on any axis) is no longer simulated
WorldLimit == 650

(***************************************************************************)
(* Program constants (scaled to dm, dm/s, ms)                              *)
(***************************************************************************)
innerRadius == 26
platformTop == 6
platformRadius == 180
killHeight == -150
respawnDelay == 300
collectionRadius == 12
attachDistance == 4
maxDelta == 50
throwCooldown == 500
mouseThrowStrength == 180
gripThrowStrength == 800
moveSpeed == 150
baseSpeed == 60
orbitSpeed == 300
frameTime == 50

States == {"floating", "falling", "pulled", "held", "thrown", "respawning"}
Variants == {"core", "xr"}
Scenes == {"collectors", "pit"}

(***************************************************************************)
(* Integer and vector arithmetic                                           *)
(***************************************************************************)
Abs(a) == IF a < 0 THEN -a ELSE a
Min(a, b) == IF a < b THEN a ELSE b
Max(a, b) == IF a > b THEN a ELSE b
\* division truncating towards zero, b > 0
TDiv(a, b) == IF a >= 0 THEN a \div b ELSE -((-a) \div b)

RECURSIVE SqrtIter(_, _)
SqrtIter(n, r) == IF r <= n \div r /\ r + 1 > n \div (r + 1) THEN r
                  ELSE SqrtIter(n, (r + n \div r) \div 2)
\* floor of the square root
ISqrt(n) == IF n <= 0 THEN 0 ELSE SqrtIter(n, n)

\* Math.sin of an angle in [0, pi/2], angle in mrad, result in thousandths
SinQ(x) ==
  LET x2 == (x * x) \div 1000
      t3 == (x * x2) \div 6000
      t5 == (t3 * x2) \div 20000
      t7 == (t5 * x2) \div 42000
  IN x - t3 + t5 - t7
\* Math.sin and Math.cos, angle in mrad, result in thousandths
SinM(a) ==
  LET r == a % 6283
  IN IF r <= 1571 THEN SinQ(r)
     ELSE IF r <= 3142 THEN SinQ(3142 - r)
     ELSE IF r <= 4713 THEN -SinQ(r - 3142)
     ELSE -SinQ(6283 - r)
CosM(a) == SinM(a + 1571)

Vec(a, b, c) == [x |-> a, y |-> b, z |-> c]
Zero == Vec(0, 0, 0)
VAdd(p, q) == Vec(p.x + q.x, p.y + q.y, p.z + q.z)
VSub(p, q) == Vec(p.x - q.x, p.y - q.y, p.z - q.z)
\* v * num / den, componentwise
VScale(v, num, den) == Vec(TDiv(v.x * num, den), TDiv(v.y * num, den), TDiv(v.z * num, den))
LenSq(v) == v.x * v.x + v.y * v.y + v.z * v.z
\* ten times the length of v
Length10(v) == ISqrt(100 * LenSq(v))
DistSq(p, q) == LenSq(VSub(p, q))
\* p.addScaledVector(dir.normalize(), s) with s = step / 100; normalize() of
\* the zero vector is the zero vector
AddNormalized(p, dir, step) ==
  IF Length10(dir) = 0 THEN p ELSE VAdd(p, VScale(dir, step, 10 * Length10(dir)))

\* dir.normalize().multiplyScalar(strength)
NormalizedTimes(dir, strength) ==
  IF Length10(dir) = 0 THEN Zero ELSE VScale(dir, 10 * strength, Length10(dir))

(***************************************************************************)
(* Samples of the values the environment supplies                          *)
(***************************************************************************)
\* the draws of #randomPosition: <<Math.random() for the radius (thousandths),
\* angle (mrad), Math.random() for the height (thousandths)>>
SpawnSeq == << <<360, 1571, 270>>,    \* next to the hand
               <<540, 1571, 270>>,    \* two units behind it
               <<940, 1571, 334>>,    \* where the third collector starts
               <<0, 4712, 270>> >>    \* across the pit, at the inner edge of the annulus
SpawnSamples == { SpawnSeq[i] : i \in 1..Len(SpawnSeq) }
\* the draws of one #populate: debris i gets draw k + i - 1 of SpawnSeq
Layout(k) == [i \in 1..count |-> SpawnSeq[((k + i - 2) % Len(SpawnSeq)) + 1]]
Layouts == {1, 2, 4}
\* Math.sin(time + floatOffset), in thousandths
SinSamples == { 1000 }
\* Math.sin(time * 1.5) * 0.3 of GarbageCollector.animate, in dm
BobSamples == { 0 }
\* camera.getWorldDirection() at a mouse-up
ThrowDirections == { Vec(-37, 0, 93), Vec(0, 0, -100) }
\* Player.direction while a movement key is down (KeyS, KeyW)
Moves == { Vec(0, 0, -1) }

(***************************************************************************)
(* State                                                                   *)
(***************************************************************************)
VARIABLES
  variant,        \* which LaserTool source the build uses
  scene,          \* which scene manager runs
  initialized,    \* main.js: initialized
  started,        \* main.js: started
  initCalls,      \* how often sceneManager.init() has run (history)
  awaiting,       \* boot() invocations suspended at an await, oldest first
  looping,        \* renderer.setAnimationLoop(this.update) has been called
  loadedCount,    \* texture callbacks of #createTextures that have run
  xrPressed,      \* trigger (button 0) of each XR input source's gamepad
  lastTriggerState, \* SceneManager.lastTriggerState
  mesh,           \* every debris created so far: position and userData
  meshes,         \* GarbageField.meshes: the active set, in array order
  timers,         \* pending setTimeout callbacks of GarbageField.respawn
  active,         \* LaserTool.active
  currentTarget,  \* LaserTool.currentTarget (0 is null)
  heldMesh,       \* Player.heldMesh (0 is null)
  move,           \* Player.direction as set by the movement keys
  boost,          \* Player.move.boost (ShiftLeft is down)
  collected,      \* SceneManager.collected
  remainingTime,  \* SceneManager.remainingTime, ms
  roundEnded,     \* SceneManager.roundEnded
  orbitAngle,     \* GarbageCollector.orbitAngle of each collector, mrad
  zonePos,        \* GarbageCollector.group.position of each collector
  sinceFrame,     \* wall-clock ms since the previous frame (clock.getDelta())
  frames,         \* frames so far
  script,         \* the user's scripted session, <<>> when the user is free
  pc,             \* next event of the script
  inputs,         \* user input events so far
  log             \* what the last step did (history, not program state)

vars == <<variant, scene, initialized, started, initCalls, awaiting, looping, loadedCount, xrPressed, lastTriggerState, mesh, meshes, timers, active, currentTarget, heldMesh, move, boost, collected,
          remainingTime, roundEnded, orbitAngle, zonePos, sinceFrame, frames, script, pc,
          inputs, log>>

EmptyLog == [ writes    |-> {},    \* <<debris, subsystem, state when written>>
              acquired  |-> {},    \* <<debris, state before LaserTool acquired it>>
              attached  |-> {},    \* <<debris, state before attachCargo, squared distance to the hand>>
              rejected  |-> {},    \* <<debris, heldMesh>> of attachCargo calls that returned early
              respawned |-> {},    \* <<debris, currentTarget, heldMesh>> of the respawn() calls
              released  |-> {},    \* <<debris, state before #releaseTarget>>
              captured  |-> <<>>,  \* <<debris, state, ms since its throw>> handed to #handleCollection
              onCollect |-> <<>>,  \* arguments of hooks.onCollect, in order
              tested    |-> FALSE, \* #checkCollectorCollisions ran
              fired     |-> 0,     \* debris whose respawn callback ran in this step
              hit       |-> 0,     \* debris the ray hit while the laser had another target
              thrown    |-> 0,     \* debris throwCargo threw
              offset    |-> Zero,  \* world offset update applied to the debris
              wall      |-> 0,     \* clock.getDelta() of the frame, ms
              delta     |-> 0,     \* delta the frame passed to the updates, ms
              roundEnd  |-> FALSE, \* #endRound called hooks.onRoundEnd
              xr        |-> <<>>,  \* calls #processXRInput made on the laser, in order
              event     |-> "" ]   \* the user event of this step

Range(s) == { s[i] : i \in 1..Len(s) }
Remove(s, e) == SelectSeq(s, LAMBDA m : m # e)

(***************************************************************************)
(* Player                                                                  *)
(***************************************************************************)
\* Player.root.position and the hand anchor's offset in camera space
rootPosition == Vec(0, 80, 100)
handOffset == Vec(4, -3, -8)
getHandWorldPosition == VAdd(rootPosition, handOffset)

\* The world the frame's subsystems pass along
World == [ mesh |-> mesh, meshes |-> meshes, timers |-> timers,
           active |-> active, currentTarget |-> currentTarget, heldMesh |-> heldMesh,
           lastTriggerState |-> lastTriggerState,
           collected |-> collected, orbitAngle |-> orbitAngle, zonePos |-> zonePos,
           log |-> EmptyLog ]

\* attachCargo without its early return
attachCargoUnguarded(w, m) ==
  [w EXCEPT !.heldMesh = m,
            !.mesh[m].state = "held",
            !.log.attached = @ \cup {<<m, w.mesh[m].state,
                                       DistSq(getHandWorldPosition, w.mesh[m].position)>>}]

\* attachCargo whose early return first lets the other debris float
attachCargoDrops(w, m) ==
  IF w.heldMesh # 0 /\ w.heldMesh # m
  THEN [w EXCEPT !.mesh[m].state = "floating",
                 !.log.rejected = @ \cup {<<m, w.heldMesh>>}]
  ELSE attachCargoUnguarded(w, m)

\* attachCargo that lets go of the debris when it is asked to attach it again
attachCargoToggles(w, m) ==
  IF w.heldMesh # 0 /\ w.heldMesh # m
  THEN [w EXCEPT !.log.rejected = @ \cup {<<m, w.heldMesh>>}]
  ELSE IF w.heldMesh = m
  THEN [w EXCEPT !.heldMesh = 0, !.mesh[m].state = "floating"]
  ELSE attachCargoUnguarded(w, m)

attachCargo(w, m) ==
  IF w.heldMesh # 0 /\ w.heldMesh # m
  THEN [w EXCEPT !.log.rejected = @ \cup {<<m, w.heldMesh>>}]
  ELSE [w EXCEPT !.heldMesh = m,
                 !.mesh[m].state = "held",
                 !.log.attached = @ \cup {<<m, w.mesh[m].state,
                                            DistSq(getHandWorldPosition, w.mesh[m].position)>>}]

\* throwCargo that throws the laser's target when the slot is empty
throwCargoFallsBack(w, direction, strength) ==
  LET m == IF w.heldMesh # 0 THEN w.heldMesh ELSE w.currentTarget
  IN IF m = 0 THEN w
     ELSE [w EXCEPT !.mesh[m].velocity = NormalizedTimes(direction, strength),
                    !.mesh[m].state = "thrown",
                    !.mesh[m].thrownAge = 0,
                    !.heldMesh = 0,
                    !.log.thrown = m]

throwCargo(w, direction, strength) ==
  IF w.heldMesh = 0 THEN w
  ELSE [w EXCEPT !.mesh[w.heldMesh].velocity = NormalizedTimes(direction, strength),
                 !.mesh[w.heldMesh].state = "thrown",
                 !.mesh[w.heldMesh].thrownAge = 0,
                 !.heldMesh = 0,
                 !.log.thrown = w.heldMesh]

\* Player.#updateHeldMesh: lerp towards the hand, velocity forced to zero
updateHeldMesh(w, delta) ==
  LET m == w.heldMesh
      p == w.mesh[m].position
  IN [w EXCEPT !.mesh[m].position = VAdd(p, VScale(VSub(getHandWorldPosition, p), 30 * delta, 1000)),
               !.mesh[m].velocity = Zero,
               !.log.writes = @ \cup {<<m, "player", w.mesh[m].state>>}]

\* the movementDelta Player.update returns
movementDelta(delta) ==
  LET speed == IF boost THEN TDiv(baseSpeed * 16, 10) ELSE baseSpeed
  IN NormalizedTimes(move, TDiv(speed * delta, 1000))

\* Player.update, as far as it touches the simulation
playerUpdate(w, delta) == IF w.heldMesh # 0 THEN updateHeldMesh(w, delta) ELSE w

(***************************************************************************)
(* LaserTool                                                               *)
(***************************************************************************)
releaseTarget(w) ==
  IF w.currentTarget # 0
  THEN [w EXCEPT !.mesh[w.currentTarget].state = "floating",
                 !.currentTarget = 0,
                 !.log.released = @ \cup {<<w.currentTarget, w.mesh[w.currentTarget].state>>}]
  ELSE w

\* the step of a pull that moves at 20 units per second in part_003
pullStepFaster(distance10, delta) ==
  IF variant = "xr" THEN TDiv(200 * delta, 10)
  ELSE TDiv(delta * 6 * Max(distance10, 100), 100)

\* the length of the per-frame pull step of #pullTowardsHand, in hundredths
\* of a dm: part_003 moves moveSpeed * delta, LaserTool.js
\* delta * 6 * max(distance, 1)
pullStep(distance10, delta) ==
  IF variant = "xr" THEN TDiv(moveSpeed * delta, 10)
  ELSE TDiv(delta * 6 * Max(distance10, 100), 100)

pullTowardsHand(w, delta) ==
  LET m == w.currentTarget
      target == w.mesh[m].position
      direction == VSub(getHandWorldPosition, target)
  IN IF LenSq(direction) < attachDistance * attachDistance
     THEN [attachCargo(w, m) EXCEPT !.currentTarget = 0]
     ELSE [w EXCEPT !.mesh[m].position =
                       AddNormalized(target, direction, pullStep(Length10(direction), delta)),
                    !.log.writes = @ \cup {<<m, "laser", w.mesh[m].state>>}]

\* the acquisition without "!this.currentTarget"
acquireReplaces(w, hit) ==
  IF hit # 0 /\ (variant = "xr" => w.mesh[hit].state # "held")
  THEN [w EXCEPT !.currentTarget = hit,
                 !.mesh[hit].velocity = Zero,
                 !.mesh[hit].state = "pulled",
                 !.log.acquired = @ \cup {<<hit, w.mesh[hit].state>>}]
  ELSE w

\* "if (!this.currentTarget && hits.length)": hit is hits[0].object, 0 for no hit
acquire(w, hit) ==
  IF w.currentTarget = 0 /\ hit # 0 /\ (variant = "xr" => w.mesh[hit].state # "held")
  THEN [w EXCEPT !.currentTarget = hit,
                 !.mesh[hit].velocity = Zero,
                 !.mesh[hit].state = "pulled",
                 !.log.acquired = @ \cup {<<hit, w.mesh[hit].state>>}]
  ELSE w

releaseRespawning(w) ==
  IF w.currentTarget # 0 /\ w.mesh[w.currentTarget].state = "respawning"
  THEN releaseTarget(w) ELSE w

pull(w, delta) ==
  IF w.currentTarget # 0 /\ (variant = "xr" => w.mesh[w.currentTarget].state = "pulled")
  THEN pullTowardsHand(w, delta) ELSE w

\* LaserTool.update, the beam left out
laserUpdate(w, delta, hit) ==
  IF ~w.active THEN w
  ELSE [pull(releaseRespawning(acquire(w, hit)), delta) EXCEPT
          !.log.hit = IF w.currentTarget # 0 /\ hit # w.currentTarget THEN hit ELSE 0]

\* throwHeldObject of part_003: the throw, then the stamp on the debris
throwHeldObject(w, dir) ==
  IF w.heldMesh # 0
  THEN [throwCargo(w, dir, gripThrowStrength) EXCEPT !.mesh[w.heldMesh].thrownTime = 0]
  ELSE w

\* deactivate() of part_003, the flag left out
deactivate(w) == releaseTarget([w EXCEPT !.active = FALSE])

\* activate() of part_003
activate(w) == [w EXCEPT !.active = TRUE]

(***************************************************************************)
(* GarbageField                                                            *)
(***************************************************************************)
\* #randomPosition with its three draws
randomPosition(draw) ==
  LET radius == innerRadius + 30 + TDiv(draw[1] * 100, 1000)
  IN Vec(TDiv(CosM(draw[2]) * radius, 1000), 60 + TDiv(draw[3] * 60, 1000),
         TDiv(SinM(draw[2]) * radius, 1000))

\* #createDebris
createDebris(draw) ==
  [ position |-> randomPosition(draw), velocity |-> Zero, state |-> "floating",
    baseHeight |-> randomPosition(draw).y,
    thrownTime |-> -1,   \* ms since userData.thrownTime was stamped, -1 if undefined
    thrownAge |-> -1 ]   \* history: ms since throwCargo last threw it, -1 if not thrown

\* step 1 over the pit that sets every debris falling
overPitReclassifies(d, delta) ==
  LET toCentre == Vec(-d.position.x, 0, -d.position.z)
      fallen == [d.velocity EXCEPT !.y = @ - TDiv(delta * 300, 1000)]
  IN [d EXCEPT !.state = "falling",
               !.velocity = AddNormalized(fallen, toCentre, TDiv(150 * delta, 10))]

\* step 1 of update for a debris over the pit
overPit(d, delta) ==
  LET toCentre == Vec(-d.position.x, 0, -d.position.z)
      fallen == [d.velocity EXCEPT !.y = @ - TDiv(delta * 300, 1000)]
  IN [d EXCEPT !.state = IF d.state # "thrown" THEN "falling" ELSE "thrown",
               !.velocity = AddNormalized(fallen, toCentre, TDiv(150 * delta, 10))]

\* step 1 over the platform that settles a thrown debris without recording
\* its height
overPlatformKeepsBaseline(d, sinv) ==
  CASE d.state = "floating" ->
         [d EXCEPT !.velocity = VScale([d.velocity EXCEPT !.y = TDiv(sinv * 5, 1000)], 95, 100)]
    [] d.state = "thrown" ->
         LET v == VScale(d.velocity, 99, 100)
         IN IF LenSq(v) < 1 * 1
            THEN [d EXCEPT !.velocity = v, !.state = "floating"]
            ELSE [d EXCEPT !.velocity = v]
    [] d.state = "falling" ->
         IF LenSq(d.velocity) < 5 * 5 THEN [d EXCEPT !.state = "floating"] ELSE d
    [] OTHER -> d

\* step 1 of update for a debris over the platform
overPlatform(d, sinv) ==
  CASE d.state = "floating" ->
         [d EXCEPT !.velocity = VScale([d.velocity EXCEPT !.y = TDiv(sinv * 5, 1000)], 95, 100)]
    [] d.state = "thrown" ->
         LET v == VScale(d.velocity, 99, 100)
         IN IF LenSq(v) < 1 * 1
            THEN [d EXCEPT !.velocity = v, !.state = "floating", !.baseHeight = d.position.y]
            ELSE [d EXCEPT !.velocity = v]
    [] d.state = "falling" ->
         IF LenSq(d.velocity) < 5 * 5 THEN [d EXCEPT !.state = "floating"] ELSE d
    [] OTHER -> d

\* step 3: bounce on the solid part of the platform
bounce(d, distSq) ==
  IF /\ distSq > innerRadius * innerRadius
     /\ distSq < platformRadius * platformRadius
     /\ d.position.y < platformTop
  THEN [d EXCEPT !.position.y = platformTop,
                 !.velocity = VScale([d.velocity EXCEPT !.y = -@], 7, 10)]
  ELSE d

\* the loop body of update for one debris that is not skipped, up to the
\* pit-disposal test
updateMesh(d, delta, sinv) ==
  LET distSq == d.position.x * d.position.x + d.position.z * d.position.z
      d1 == IF distSq < innerRadius * innerRadius THEN overPit(d, delta) ELSE overPlatform(d, sinv)
      d2 == [d1 EXCEPT !.position = VAdd(@, VScale(d1.velocity, delta, 1000))]
  IN bounce(d2, distSq)

skipped(d) == d.state = "respawning" \/ d.state = "pulled" \/ d.state = "held"

InWorld(d) == /\ Abs(d.position.x) <= WorldLimit
              /\ Abs(d.position.y) <= WorldLimit
              /\ Abs(d.position.z) <= WorldLimit

\* respawn(mesh) without the setTimeout
respawnWithoutTimer(w, m) ==
  [w EXCEPT !.mesh[m].state = "respawning",
            !.log.respawned = @ \cup {<<m, w.currentTarget, w.heldMesh>>}]

\* respawn(mesh): the state change and the setTimeout
respawn(w, m) ==
  [w EXCEPT !.mesh[m].state = "respawning",
            !.timers = Append(@, [mesh |-> m, left |-> respawnDelay]),
            !.log.respawned = @ \cup {<<m, w.currentTarget, w.heldMesh>>}]

updateOne(w, m, delta, sinv) ==
  IF skipped(w.mesh[m]) \/ ~InWorld(w.mesh[m]) THEN w
  ELSE LET d == updateMesh(w.mesh[m], delta, sinv)
           w1 == [w EXCEPT !.mesh[m] = d,
                           !.log.writes = @ \cup {<<m, "field", w.mesh[m].state>>}]
       IN IF d.position.y < killHeight THEN respawn(w1, m) ELSE w1

RECURSIVE updateFrom(_, _, _, _)
updateFrom(w, i, delta, sinv) ==
  IF i > Len(w.meshes) THEN w
  ELSE updateFrom(updateOne(w, w.meshes[i], delta, sinv), i + 1, delta, sinv)

\* GarbageField.update
fieldUpdate(w, delta, sinv) == updateFrom(w, 1, delta, sinv)

removeMesh(w, m) == [w EXCEPT !.meshes = Remove(@, m)]

\* #populate: count new debris, appended to the active set; draws[i] holds
\* the random draws of the i-th
populate(w, draws) ==
  LET first == Len(w.mesh)
  IN [w EXCEPT !.mesh = @ \o [i \in 1..count |-> createDebris(draws[i])],
               !.meshes = @ \o [i \in 1..count |-> first + i]]

\* reset(): the old debris leave the active set (their objects live on)
reset(w, draws) == populate([w EXCEPT !.meshes = <<>>], draws)

\* #createTextures: the success callback of a texture load, the n-th callback
\* to run
textureLoaded(w, n, draws) == IF n = 3 THEN populate(w, draws) ELSE w

\* #createTextures: the error callback of a texture load
textureFailed(w, n, draws) ==
  IF n = 3 /\ Len(w.meshes) = 0 THEN populate(w, draws) ELSE w

\* moveAll(delta)
moveAll(w, offset) ==
  [w EXCEPT !.mesh = [m \in DOMAIN w.mesh |->
                        IF m \in Range(w.meshes)
                        THEN [w.mesh[m] EXCEPT !.position = VAdd(@, offset)]
                        ELSE w.mesh[m]]]

(***************************************************************************)
(* GarbageCollector                                                        *)
(***************************************************************************)
\* two of the eight positions of #setupEnvironment (positions[2], positions[3])
collectorPositions == << Vec(0, 80, 150), Vec(0, 80, -150) >>
Collectors == 1..Len(collectorPositions)
\* Math.atan2(position.z, position.x) of the constructor, in mrad
initialAngle == << 1571, 4712 >>
orbitRadius(c) == Length10(Vec(collectorPositions[c].x, 0, collectorPositions[c].z)) \div 10

\* animate(delta): the new orbitAngle and group.position
animateAngle(angle, delta) == (angle + TDiv(delta * orbitSpeed, 1000)) % 6283
animatePosition(c, angle, bob) ==
  Vec(TDiv(CosM(angle) * orbitRadius(c), 1000), collectorPositions[c].y + bob,
      TDiv(SinM(angle) * orbitRadius(c), 1000))
animate(w, delta, bob) ==
  LET angles == [c \in Collectors |-> animateAngle(w.orbitAngle[c], delta)]
  IN [w EXCEPT !.orbitAngle = angles,
               !.zonePos = [c \in Collectors |-> animatePosition(c, angles[c], bob)]]

checkCollision(zone, d) == DistSq(zone, d.position) < collectionRadius * collectionRadius

(***************************************************************************)
(* CollectorPit                                                            *)
(***************************************************************************)
pitRadius == 26
pitTop == 12

\* the debris checkCapture passes over (mesh.visible is never cleared)
pitSkips(d) ==
  \/ d.state \in {"respawning", "pulled", "held", "thrown"}
  \/ d.state = "floating" /\ d.thrownTime >= 0 /\ d.thrownTime < throwCooldown

inPit(d) ==
  /\ d.position.x * d.position.x + d.position.z * d.position.z < pitRadius * pitRadius
  /\ d.position.y < pitTop

(***************************************************************************)
(* SceneManager                                                            *)
(***************************************************************************)
\* the arguments #handleCollection and restartRound pass to hooks.onCollect
onCollectArgs(w) == << w.collected >>

\* #handleCollection without the removeMesh call
handleCollectionKeepsMesh(w, m) ==
  LET w1 == [w EXCEPT !.collected = @ + 1]
  IN [w1 EXCEPT !.log.captured = Append(@, <<m, w.mesh[m].state, w.mesh[m].thrownAge>>),
                !.log.onCollect = Append(@, w1.collected)]

handleCollection(w, m) ==
  LET w1 == removeMesh([w EXCEPT !.collected = @ + 1], m)
  IN [w1 EXCEPT !.log.captured = Append(@, <<m, w.mesh[m].state, w.mesh[m].thrownAge>>),
                !.log.onCollect = Append(@, onCollectArgs(w1)[1])]

\* the inner loop of #checkCollectorCollisions: the first collector that
\* reports a collision collects the debris, and the loop breaks
RECURSIVE collide(_, _, _)
collide(w, m, c) ==
  IF c > Len(w.zonePos) THEN w
  ELSE IF checkCollision(w.zonePos[c], w.mesh[m]) THEN handleCollection(w, m)
  ELSE collide(w, m, c + 1)

eligible(d) == d.state = "thrown" \/ d.state = "floating"

\* the outer loop runs over the array this.garbageField.meshes held when it
\* started, although removeMesh replaces the field's array
RECURSIVE collisionsFrom(_, _, _)
collisionsFrom(w, snapshot, i) ==
  IF i > Len(snapshot) THEN w
  ELSE collisionsFrom(IF eligible(w.mesh[snapshot[i]]) THEN collide(w, snapshot[i], 1) ELSE w,
                      snapshot, i + 1)

checkCollectorCollisions(w) ==
  [collisionsFrom(w, w.meshes, 1) EXCEPT !.log.tested = TRUE]

\* CollectorPit.checkCapture(meshes, onCollect) with onCollect bound to
\* #handleCollection (part_004); the loop runs over the array it was given
RECURSIVE captureFrom(_, _, _)
captureFrom(w, snapshot, i) ==
  IF i > Len(snapshot) THEN w
  ELSE LET d == w.mesh[snapshot[i]]
       IN captureFrom(IF ~pitSkips(d) /\ inPit(d) THEN handleCollection(w, snapshot[i]) ELSE w,
                      snapshot, i + 1)

checkCapture(w) == [captureFrom(w, w.meshes, 1) EXCEPT !.log.tested = TRUE]

\* the world offset of update: the world moves against the player's movement
moveWorld(w, movement) ==
  IF LenSq(movement) > 0
  THEN moveAll([w EXCEPT !.zonePos = [c \in Collectors |-> VSub(w.zonePos[c], movement)],
                         !.log.offset = VSub(Zero, movement)],
               VSub(Zero, movement))
  ELSE w

\* SceneManager.update after the round timer: player, world offset,
\* collectors, laser, field, capture test
frame(w, delta, hit, sinv, bob) ==
  checkCollectorCollisions(
    fieldUpdate(
      laserUpdate(
        animate(moveWorld(playerUpdate(w, delta), movementDelta(delta)), delta, bob),
        delta, hit),
      delta, sinv))

\* update of part_004: player, field, laser, capture test of the pit
framePit(w, delta, hit, sinv) ==
  checkCapture(laserUpdate(fieldUpdate(playerUpdate(w, delta), delta, sinv), delta, hit))

\* the wall clock advances by dt: pending timers come closer, and the time
\* since a throw grows (kept only while the debris is thrown)
elapseTimers(ts, dt) == [i \in 1..Len(ts) |-> [ts[i] EXCEPT !.left = Max(0, @ - dt)]]
elapseMesh(d, dt) ==
  [d EXCEPT !.thrownAge = IF d.state = "thrown" /\ @ >= 0 THEN Min(@ + dt, throwCooldown) ELSE -1,
            !.thrownTime = IF @ >= 0 THEN Min(@ + dt, throwCooldown) ELSE -1]
elapse(ms, dt) == [m \in DOMAIN ms |-> elapseMesh(ms[m], dt)]

(***************************************************************************)
(* The user                                                                *)
(***************************************************************************)
Ev(at, ev, arg, dir) == [at |-> at, ev |-> ev, arg |-> arg, dir |-> dir]

\* scripted sessions: the layout of the first #populate and the events, each
\* with the frame after which it happens
Scripts ==
  { [layout |-> 4, scene |-> "pit", variants |-> Variants, frame |-> frameTime, loaded |-> 3, sources |-> 0, booted |-> TRUE,
     events |-> << Ev(0, "down", 1, Zero), Ev(5, "up", 0, Zero) >>],
    [layout |-> 4, scene |-> "pit", variants |-> Variants, frame |-> frameTime, loaded |-> 3, sources |-> 0, booted |-> TRUE,
     events |-> << Ev(0, "down", 1, Zero), Ev(1, "up", 0, Zero) >>],
    [layout |-> 4, scene |-> "collectors", variants |-> Variants, frame |-> frameTime, loaded |-> 3, sources |-> 0, booted |-> TRUE,
     events |-> << Ev(0, "down", 1, Zero), Ev(5, "up", 0, Zero), Ev(34, "down", 1, Zero),
                   Ev(40, "keydown", 0, Vec(0, 0, -1)), Ev(51, "keyup", 0, Zero) >>],
    [layout |-> 4, scene |-> "collectors", variants |-> Variants, frame |-> frameTime, loaded |-> 3, sources |-> 0, booted |-> TRUE,
     events |-> << Ev(0, "down", 1, Zero), Ev(1, "up", 0, Zero), Ev(30, "down", 1, Zero),
                   Ev(40, "up", 0, Vec(-37, 0, 93)), Ev(42, "start", 0, Zero),
                   Ev(43, "down", 2, Zero), Ev(50, "restart", 1, Zero),
                   Ev(52, "up", 0, Vec(0, 0, -100)), Ev(53, "down", 3, Zero) >>],
    \* a debris drifts into a zone, the round ends, boot() starts the next
    \* round, that one ends and is restarted
    [layout |-> 2, scene |-> "collectors", variants |-> Variants, frame |-> frameTime, loaded |-> 3, sources |-> 0, booted |-> TRUE,
     events |-> << Ev(8, "start", 0, Zero), Ev(16, "restart", 2, Zero) >>],
    \* a session with the XR controller: trigger, trigger released, grip, grip
    \* with an empty hand, trigger on the second debris and released
    [layout |-> 1, scene |-> "collectors", variants |-> {"xr"}, frame |-> frameTime, loaded |-> 3, sources |-> 0, booted |-> TRUE,
     events |-> << Ev(0, "activate", 1, Zero), Ev(2, "deactivate", 0, Zero),
                   Ev(3, "grip", 0, Vec(0, 0, -100)), Ev(4, "grip", 0, Vec(0, 0, -100)),
                   Ev(5, "activate", 2, Zero), Ev(7, "deactivate", 0, Zero) >>],
    \* the player picks a debris up, starts to run with it and lets go of the
    \* mouse button one frame later
    [layout |-> 1, scene |-> "collectors", variants |-> Variants, frame |-> frameTime, loaded |-> 3, sources |-> 0, booted |-> TRUE,
     events |-> << Ev(0, "down", 1, Zero), Ev(2, "keydown", 1, Zero),
                   Ev(2, "keydown", 0, Vec(0, 0, -1)), Ev(3, "up", 0, Vec(0, 0, -100)),
                   Ev(5, "keyup", 1, Zero), Ev(5, "keyup", 0, Zero) >>],
    \* a debris is dropped into the pit and the round is restarted while its
    \* respawn callback is pending
    [layout |-> 4, scene |-> "collectors", variants |-> {"core"}, frame |-> frameTime, loaded |-> 3, sources |-> 0, booted |-> TRUE,
     events |-> << Ev(0, "down", 1, Zero), Ev(1, "up", 0, Zero), Ev(30, "restart", 1, Zero) >>],
    [layout |-> 4, scene |-> "collectors", variants |-> {"xr"}, frame |-> frameTime, loaded |-> 3, sources |-> 0, booted |-> TRUE,
     events |-> << Ev(0, "down", 1, Zero), Ev(5, "up", 0, Zero), Ev(33, "restart", 1, Zero) >>],
    \* the player looks at the second debris while the laser pulls the first
    [layout |-> 4, scene |-> "collectors", variants |-> Variants, frame |-> frameTime, loaded |-> 3, sources |-> 0, booted |-> TRUE,
     events |-> << Ev(0, "down", 1, Zero), Ev(1, "aim", 2, Zero), Ev(3, "up", 0, Zero) >>],
    \* a slow display: 70 ms from one frame to the next
    [layout |-> 4, scene |-> "collectors", variants |-> Variants, frame |-> 70, loaded |-> 3, sources |-> 0, booted |-> TRUE,
     events |-> << Ev(0, "down", 1, Zero), Ev(3, "up", 0, Vec(0, 0, -100)) >>],
    \* a fast display: 40 ms from one frame to the next
    [layout |-> 1, scene |-> "collectors", variants |-> Variants, frame |-> 40, loaded |-> 3, sources |-> 0, booted |-> TRUE,
     events |-> << Ev(0, "down", 1, Zero), Ev(2, "up", 0, Vec(0, 0, -100)) >>],
    \* the session begins while the textures load: all three load
    [layout |-> 1, scene |-> "collectors", variants |-> {"core"}, frame |-> frameTime,
     loaded |-> 0, sources |-> 0, booted |-> TRUE,
     events |-> << Ev(0, "texture", 1, Zero), Ev(1, "texture", 1, Zero),
                   Ev(2, "texture", 2, Zero) >>],
    \* none of the textures loads
    [layout |-> 1, scene |-> "collectors", variants |-> {"core"}, frame |-> frameTime,
     loaded |-> 0, sources |-> 0, booted |-> TRUE,
     events |-> << Ev(0, "textureError", 1, Zero), Ev(0, "textureError", 1, Zero),
                   Ev(1, "textureError", 1, Zero) >>],
    \* the last texture fails after the round was restarted
    [layout |-> 1, scene |-> "collectors", variants |-> {"core"}, frame |-> frameTime,
     loaded |-> 0, sources |-> 0, booted |-> TRUE,
     events |-> << Ev(0, "texture", 1, Zero), Ev(1, "texture", 1, Zero),
                   Ev(8, "restart", 4, Zero), Ev(9, "textureError", 1, Zero) >>],
    \* the last texture loads after the round was restarted
    [layout |-> 1, scene |-> "collectors", variants |-> {"core"}, frame |-> frameTime,
     loaded |-> 0, sources |-> 0, booted |-> TRUE,
     events |-> << Ev(0, "texture", 1, Zero), Ev(1, "texture", 1, Zero),
                   Ev(8, "restart", 4, Zero), Ev(9, "texture", 1, Zero) >>],
    \* an XR session with two controllers: the trigger of the first is held
    \* for three frames
    [layout |-> 4, scene |-> "collectors", variants |-> {"xr"}, frame |-> frameTime,
     loaded |-> 3, sources |-> 2, booted |-> TRUE,
     events |-> << Ev(0, "aim", 1, Zero), Ev(0, "pad", 1, Zero), Ev(3, "pad", -1, Zero) >>],
    \* the trigger of the second controller is held for three frames
    [layout |-> 4, scene |-> "collectors", variants |-> {"xr"}, frame |-> frameTime,
     loaded |-> 3, sources |-> 2, booted |-> TRUE,
     events |-> << Ev(0, "aim", 1, Zero), Ev(0, "pad", 2, Zero), Ev(3, "pad", -2, Zero) >>],
    \* the session begins with the page loaded: the player clicks "start VR"
    \* and, while the XR session is being set up, "start desktop"; the round
    \* ends and the player starts the next one
    [layout |-> 1, scene |-> "collectors", variants |-> {"core"}, frame |-> frameTime,
     loaded |-> 0, sources |-> 0, booted |-> FALSE,
     events |-> << Ev(0, "boot", 1, Zero), Ev(0, "boot", 0, Zero), Ev(0, "texture", 1, Zero),
                   Ev(0, "texture", 1, Zero), Ev(1, "texture", 1, Zero),
                   Ev(2, "xrReady", 0, Zero), Ev(3, "boot", 1, Zero), Ev(4, "xrReady", 0, Zero),
                   Ev(8, "boot", 0, Zero) >>],
    \* "start desktop" first; "start VR" during the round, the round ends while
    \* the XR session is being set up, and "start desktop" once it is
    [layout |-> 1, scene |-> "collectors", variants |-> {"core"}, frame |-> frameTime,
     loaded |-> 0, sources |-> 0, booted |-> FALSE,
     events |-> << Ev(0, "boot", 0, Zero), Ev(0, "texture", 1, Zero),
                   Ev(0, "texture", 1, Zero), Ev(1, "texture", 1, Zero),
                   Ev(4, "boot", 1, Zero), Ev(7, "xrReady", 0, Zero),
                   Ev(8, "boot", 0, Zero) >>],
    \* the player throws a debris straight up and watches it until the drag
    \* has stopped it, then picks it up again
    [layout |-> 1, scene |-> "pit", variants |-> Variants, frame |-> frameTime, loaded |-> 3, sources |-> 0, booted |-> TRUE,
     events |-> << Ev(0, "down", 1, Zero), Ev(3, "up", 0, Vec(0, 100, 0)),
                   Ev(150, "down", 1, Zero) >>],
    \* the player throws a debris and catches it in flight
    [layout |-> 1, scene |-> "collectors", variants |-> Variants, frame |-> frameTime, loaded |-> 3, sources |-> 0, booted |-> TRUE,
     events |-> << Ev(0, "down", 1, Zero), Ev(3, "up", 0, Vec(0, 0, -100)),
                   Ev(5, "down", 1, Zero) >>],
    \* the player runs backwards, throws a debris down towards the pit and
    \* runs after it: it falls through the pit
    [layout |-> 1, scene |-> "collectors", variants |-> {"core"}, frame |-> frameTime, loaded |-> 3, sources |-> 0, booted |-> TRUE,
     events |-> << Ev(0, "down", 1, Zero), Ev(2, "keydown", 1, Zero),
                   Ev(3, "keydown", 0, Vec(0, 0, 1)), Ev(3, "up", 0, Vec(0, -80, -60)),
                   Ev(13, "keyup", 0, Zero), Ev(13, "keydown", 0, Vec(0, 0, -1)) >>],
    \* the player walks towards the pit for thirty frames and stops: the
    \* debris at the far edge is carried across the pit with the world
    [layout |-> 4, scene |-> "collectors", variants |-> {"core"}, frame |-> frameTime, loaded |-> 3, sources |-> 0, booted |-> TRUE,
     events |-> << Ev(0, "keydown", 0, Vec(0, 0, -1)), Ev(30, "keyup", 0, Zero) >>],
    \* a slow display and a debris next to the hand
    [layout |-> 1, scene |-> "collectors", variants |-> Variants, frame |-> 70, loaded |-> 3, sources |-> 0, booted |-> TRUE,
     events |-> << Ev(0, "down", 1, Zero), Ev(4, "up", 0, Vec(0, 0, -100)) >>] }

Free == script = <<>>
\* an event of the script is to happen before the next frame
Due == ~Free /\ pc <= Len(script) /\ script[pc].at = frames
\* the free user only uses the mouse
FreeEvents == {"down", "up"}
\* the continuation of `await sceneManager.init()` is a microtask (init() has
\* no await of its own): it runs before the event loop takes any other task
Microtask == \E i \in 1..Len(awaiting) : awaiting[i].at = "init"
May(ev) == ~Microtask /\ IF Free THEN ev \in FreeEvents /\ inputs < MaxInputs ELSE Due /\ script[pc].ev = ev
Taken == /\ pc' = IF Free THEN pc ELSE pc + 1
         /\ inputs' = IF Free THEN inputs + 1 ELSE inputs
Horizon == IF Free THEN MaxFrames ELSE script[Len(script)].at + ScriptTail

\* the debris the scripted user aims at: the one named by the last mouse-down,
\* trigger press or look
Aim ==
  LET downs == { i \in 1..(pc - 1) : script[i].ev \in {"down", "activate", "aim"} }
  IN IF downs = {} THEN 0
     ELSE script[CHOOSE i \in downs : \A j \in downs : j <= i].arg

\* what the ray of LaserTool.update can hit first in this frame.  The free
\* user keeps looking at the target while the laser has one (what the ray hits
\* then changes nothing in the program); the scripted user looks where the
\* script says.
Hits ==
  IF Free
  THEN (IF ~active \/ currentTarget # 0 THEN {0} ELSE Range(meshes) \cup {0})
  ELSE IF Aim \in Range(meshes) THEN {Aim} ELSE {0}

(***************************************************************************)
(* Initial state: constructed, booted and started; the textures are loaded *)
(* and the field is populated, except in the sessions that begin while     *)
(* they load or before the first boot()                                    *)
(***************************************************************************)
InitWorld(k, ms, loaded, sources, booted) ==
  /\ variant \in Variants
  /\ initialized = booted
  /\ started = booted
  /\ initCalls = IF booted THEN 1 ELSE 0
  /\ awaiting = <<>>
  /\ looping = booted
  /\ loadedCount = loaded
  /\ xrPressed = [i \in 1..sources |-> FALSE]
  /\ lastTriggerState = FALSE
  /\ mesh = IF loaded = 3 THEN [i \in 1..count |-> createDebris(Layout(k)[i])] ELSE <<>>
  /\ meshes = [i \in 1..Len(mesh) |-> i]
  /\ timers = <<>>
  /\ active = FALSE
  /\ currentTarget = 0
  /\ heldMesh = 0
  /\ move = Zero
  /\ boost = FALSE
  /\ collected = 0
  /\ remainingTime = roundDuration
  /\ roundEnded = FALSE
  /\ orbitAngle = initialAngle
  /\ zonePos = collectorPositions
  /\ sinceFrame = ms
  /\ frames = 0
  /\ pc = 1
  /\ inputs = 0
  /\ log = EmptyLog

\* a scripted session
ScriptedInit ==
  \E s \in Scripts :
    InitWorld(s.layout, s.frame, s.loaded, s.sources, s.booted) /\ variant \in s.variants /\ scene = s.scene /\ script = s.events

Init == \/ \E k \in Layouts : InitWorld(k, frameTime, 3, 0, TRUE) /\ scene \in Scenes /\ script = <<>>
        \/ ScriptedInit

(***************************************************************************)
(* Actions                                                                 *)
(***************************************************************************)
\* the next frame can run: the user has made the moves scripted before it, no
\* setTimeout callback is due, and the session goes on
TickEnabled ==
  /\ looping /\ ~Microtask
  /\ ~Due
  /\ \A i \in 1..Len(timers) : timers[i].left > 0
  /\ frames < Horizon \/ timers # <<>>

\* #processXRInput, the trigger (button 0) of one input source: the press and
\* the release are told from this.lastTriggerState
triggerInput(w, pressed) ==
  LET called == IF pressed /\ ~w.lastTriggerState
                THEN [activate(w) EXCEPT !.log.xr = Append(@, "activate")]
                ELSE IF ~pressed /\ w.lastTriggerState
                     THEN [deactivate(w) EXCEPT !.log.xr = Append(@, "deactivate")]
                     ELSE w
  IN [called EXCEPT !.lastTriggerState = pressed]

RECURSIVE inputFrom(_, _, _)
inputFrom(w, pressed, i) ==
  IF i > Len(pressed) THEN w
  ELSE inputFrom(triggerInput(w, pressed[i]), pressed, i + 1)

\* #processXRInput: the loop over this.xrInputSources; the thumbsticks rest and
\* no button but the trigger is down
processXRInput(w, pressed) == inputFrom(w, pressed, 1)

\* update without the Math.min
rawDelta(dt) == dt

\* update: the delta of the frame, clock.getDelta() clamped to the maximum step
clampDelta(dt) == Min(dt, maxDelta)

\* update with a round timer that is not clamped at 0
timerStepUnclamped(remaining, delta) == remaining - delta

\* update: the round timer of a running round
timerStep(remaining, delta) == Max(0, remaining - delta)

\* SceneManager.update: one frame, then the wall clock runs on to the next
\* (the display refreshes at a constant rate)
Tick ==
  /\ TickEnabled
  /\ \E sinv \in SinSamples, bob \in BobSamples, hit \in Hits :
       LET delta == clampDelta(sinceFrame)
           timed == scene = "collectors" /\ ~roundEnded
           remaining == IF timed THEN timerStep(remainingTime, delta) ELSE remainingTime
           ends == timed /\ remaining <= 0
           after == IF ends THEN World
                    ELSE IF scene = "pit" THEN framePit(World, delta, hit, sinv)
                    ELSE frame(processXRInput(World, xrPressed), delta, hit, sinv, bob)
       IN \E w \in {after} :
            /\ remainingTime' = remaining
            /\ roundEnded' = (roundEnded \/ ends)
            /\ started' = (started /\ ~ends)
            /\ orbitAngle' = w.orbitAngle
            /\ zonePos' = w.zonePos
            /\ mesh' = elapse(w.mesh, sinceFrame)
            /\ meshes' = w.meshes
            /\ timers' = elapseTimers(w.timers, sinceFrame)
            /\ active' = w.active
            /\ lastTriggerState' = w.lastTriggerState
            /\ currentTarget' = w.currentTarget
            /\ heldMesh' = w.heldMesh
            /\ collected' = w.collected
            /\ log' = [w.log EXCEPT !.wall = sinceFrame, !.delta = delta, !.roundEnd = ends]
  /\ sinceFrame' = sinceFrame
  /\ frames' = frames + 1
  /\ UNCHANGED <<variant, scene, initialized, initCalls, awaiting, looping, loadedCount, xrPressed,
                 move, boost, script, pc, inputs>>

\* mousedown on the canvas, button 0
MouseDown ==
  /\ May("down")
  /\ ~active
  /\ active' = TRUE
  /\ Taken
  /\ log' = EmptyLog
  /\ UNCHANGED <<variant, scene, initialized, started, initCalls, awaiting, looping, loadedCount, xrPressed, lastTriggerState, mesh, meshes, timers, currentTarget, heldMesh, move, boost, collected,
                 remainingTime, roundEnded, orbitAngle, zonePos, sinceFrame, frames,
                 script>>

\* the mouse moves and the camera looks at another debris (pointer lock)
MouseMove ==
  /\ May("aim")
  /\ Taken
  /\ log' = EmptyLog
  /\ UNCHANGED <<variant, scene, initialized, started, initCalls, awaiting, looping, loadedCount, xrPressed, lastTriggerState, mesh, meshes, timers, active, currentTarget, heldMesh, move,
                 boost, collected, remainingTime, roundEnded, orbitAngle, zonePos, sinceFrame,
                 frames, script>>

\* mouseup on the document, button 0
MouseUp ==
  /\ May("up")
  /\ active
  /\ \E dir \in (IF heldMesh = 0 THEN {Zero}
                 ELSE IF Free THEN ThrowDirections ELSE {script[pc].dir}) :
       LET w == releaseTarget(IF heldMesh # 0 THEN throwCargo(World, dir, mouseThrowStrength)
                              ELSE World)
       IN /\ mesh' = w.mesh
          /\ currentTarget' = w.currentTarget
          /\ heldMesh' = w.heldMesh
          /\ log' = [w.log EXCEPT !.event = "up"]
  /\ active' = FALSE
  /\ Taken
  /\ UNCHANGED <<variant, scene, initialized, started, initCalls, awaiting, looping, loadedCount, xrPressed, lastTriggerState, meshes, timers, move, boost, collected, remainingTime, roundEnded,
                 orbitAngle, zonePos, sinceFrame, frames, script>>

\* keydown of a movement key, or of ShiftLeft (a scripted event with arg 1)
KeyDown ==
  /\ May("keydown")
  /\ IF ~Free /\ script[pc].arg = 1
     THEN ~boost /\ boost' = TRUE /\ UNCHANGED move
     ELSE /\ move = Zero
          /\ \E dir \in (IF Free THEN Moves ELSE {script[pc].dir}) : move' = dir
          /\ UNCHANGED boost
  /\ Taken
  /\ log' = EmptyLog
  /\ UNCHANGED <<variant, scene, initialized, started, initCalls, awaiting, looping, loadedCount, xrPressed, lastTriggerState, mesh, meshes, timers, active, currentTarget, heldMesh, collected,
                 remainingTime, roundEnded, orbitAngle, zonePos, sinceFrame, frames,
                 script>>

\* keyup of the movement key, or of ShiftLeft (a scripted event with arg 1)
KeyUp ==
  /\ May("keyup")
  /\ IF ~Free /\ script[pc].arg = 1
     THEN boost /\ boost' = FALSE /\ UNCHANGED move
     ELSE move # Zero /\ move' = Zero /\ UNCHANGED boost
  /\ Taken
  /\ log' = EmptyLog
  /\ UNCHANGED <<variant, scene, initialized, started, initCalls, awaiting, looping, loadedCount, xrPressed, lastTriggerState, mesh, meshes, timers, active, currentTarget, heldMesh, collected,
                 remainingTime, roundEnded, orbitAngle, zonePos, sinceFrame, frames,
                 script>>

\* A session with one XR controller is scripted by the calls its presses lead
\* to in the next update (with one input source every press is one call); a
\* session with several controllers by the trigger states update polls (Gamepad).
\* #processXRInput: the trigger goes down, laserTool.activate()
Activate ==
  /\ May("activate")
  /\ variant = "xr" /\ scene = "collectors"
  /\ ~active
  /\ active' = activate(World).active
  /\ Taken
  /\ log' = EmptyLog
  /\ UNCHANGED <<variant, scene, initialized, started, initCalls, awaiting, looping, loadedCount, xrPressed, lastTriggerState, mesh, meshes, timers, currentTarget, heldMesh, move, boost, collected,
                 remainingTime, roundEnded, orbitAngle, zonePos, sinceFrame, frames,
                 script>>

\* #processXRInput: the trigger goes up, laserTool.deactivate()
Deactivate ==
  /\ May("deactivate")
  /\ variant = "xr" /\ scene = "collectors"
  /\ active
  /\ LET w == deactivate(World)
     IN /\ mesh' = w.mesh
        /\ currentTarget' = w.currentTarget
        /\ active' = w.active
        /\ log' = [w.log EXCEPT !.event = "deactivate"]
  /\ Taken
  /\ UNCHANGED <<variant, scene, initialized, started, initCalls, awaiting, looping, loadedCount, xrPressed, lastTriggerState, meshes, timers, heldMesh, move, boost, collected, remainingTime,
                 roundEnded, orbitAngle, zonePos, sinceFrame, frames, script>>

\* #processXRInput: the grip goes down, laserTool.throwHeldObject()
ThrowHeldObject ==
  /\ May("grip")
  /\ variant = "xr" /\ scene = "collectors"
  /\ LET w == throwHeldObject(World, script[pc].dir)
     IN /\ mesh' = w.mesh
        /\ heldMesh' = w.heldMesh
        /\ log' = [w.log EXCEPT !.event = "grip"]
  /\ Taken
  /\ UNCHANGED <<variant, scene, initialized, started, initCalls, awaiting, looping, loadedCount, xrPressed, lastTriggerState, meshes, timers, active, currentTarget, move, boost, collected,
                 remainingTime, roundEnded, orbitAngle, zonePos, sinceFrame, frames, script>>

\* the setTimeout callback of respawn(mesh), 300 ms after it was set
RespawnTimer ==
  /\ ~Microtask
  /\ timers # <<>>
  /\ timers[1].left = 0
  /\ \E draw \in SpawnSamples :
       mesh' = [mesh EXCEPT ![timers[1].mesh] =
                  [@ EXCEPT !.position = randomPosition(draw),
                            !.velocity = Zero,
                            !.baseHeight = randomPosition(draw).y,
                            !.state = "floating"]]
  /\ timers' = Tail(timers)
  /\ log' = [EmptyLog EXCEPT !.fired = timers[1].mesh]
  /\ UNCHANGED <<variant, scene, initialized, started, initCalls, awaiting, looping, loadedCount, xrPressed, lastTriggerState, meshes, active, currentTarget, heldMesh, move, boost, collected,
                 remainingTime, roundEnded, orbitAngle, zonePos, sinceFrame, frames,
                 script, pc, inputs>>

\* the XR runtime reports a trigger of one of several input sources down
\* (arg k) or up (arg -k); the next update polls it
Gamepad ==
  /\ May("pad")
  /\ variant = "xr" /\ scene = "collectors"
  /\ LET k == Abs(script[pc].arg)
     IN /\ k \in DOMAIN xrPressed
        /\ xrPressed[k] # (script[pc].arg > 0)
        /\ xrPressed' = [xrPressed EXCEPT ![k] = script[pc].arg > 0]
  /\ Taken
  /\ log' = [EmptyLog EXCEPT !.event = "pad"]
  /\ UNCHANGED <<variant, scene, initialized, started, initCalls, awaiting, looping, loadedCount, lastTriggerState, mesh, meshes, timers, active,
                 currentTarget, heldMesh, move, boost, collected, remainingTime, roundEnded,
                 orbitAngle, zonePos, sinceFrame, frames, script>>

\* a texture has loaded: the success callback of #createTextures runs
TextureLoaded ==
  /\ May("texture")
  /\ initCalls > 0
  /\ loadedCount < 3
  /\ loadedCount' = loadedCount + 1
  /\ LET w == textureLoaded(World, loadedCount + 1, Layout(script[pc].arg))
     IN /\ mesh' = w.mesh
        /\ meshes' = w.meshes
  /\ Taken
  /\ log' = [EmptyLog EXCEPT !.event = "texture"]
  /\ UNCHANGED <<variant, scene, initialized, started, initCalls, awaiting, looping, xrPressed, lastTriggerState, timers, active, currentTarget,
                 heldMesh, move, boost, collected, remainingTime, roundEnded, orbitAngle,
                 zonePos, sinceFrame, frames, script>>

\* a texture has failed to load: the error callback of #createTextures runs
TextureFailed ==
  /\ May("textureError")
  /\ initCalls > 0
  /\ loadedCount < 3
  /\ loadedCount' = loadedCount + 1
  /\ LET w == textureFailed(World, loadedCount + 1, Layout(script[pc].arg))
     IN /\ mesh' = w.mesh
        /\ meshes' = w.meshes
  /\ Taken
  /\ log' = [EmptyLog EXCEPT !.event = "textureError"]
  /\ UNCHANGED <<variant, scene, initialized, started, initCalls, awaiting, looping, xrPressed, lastTriggerState, timers, active, currentTarget,
                 heldMesh, move, boost, collected, remainingTime, roundEnded, orbitAngle,
                 zonePos, sinceFrame, frames, script>>

\* boot() that calls init() whenever the game is not started
needsInitAlways(init) == TRUE

\* boot(): if (!initialized)
needsInit(init) == ~init

\* SceneManager.init(): #setupActors makes a new player, field (whose textures
\* start to load) and laser
init(w) == [w EXCEPT !.meshes = <<>>, !.currentTarget = 0, !.heldMesh = 0, !.active = FALSE]

\* a click on a start button: boot(mode) runs up to its first await (arg 1 is
\* mode 'vr')
Boot ==
  /\ May("boot")
  /\ scene = "collectors"
  /\ LET vr == script[pc].arg = 1
         restarts == started /\ roundEnded
         inits == ~started /\ needsInit(initialized)
         starts == ~started /\ ~needsInit(initialized)
         w == IF restarts THEN reset(World, Layout(1))
              ELSE IF inits THEN init(World) ELSE World
     IN /\ mesh' = w.mesh
        /\ meshes' = w.meshes
        /\ currentTarget' = w.currentTarget
        /\ heldMesh' = w.heldMesh
        /\ active' = w.active
        /\ collected' = IF restarts THEN 0 ELSE collected
        /\ roundEnded' = (roundEnded /\ ~restarts /\ ~starts)
        /\ remainingTime' = IF restarts \/ starts THEN roundDuration ELSE remainingTime
        /\ looping' = (looping \/ restarts \/ starts)
        /\ initCalls' = IF inits THEN initCalls + 1 ELSE initCalls
        /\ loadedCount' = IF inits THEN 0 ELSE loadedCount
        /\ started' = (started \/ starts)
        /\ awaiting' = IF inits THEN Append(awaiting, [at |-> "init", vr |-> vr])
                       ELSE IF vr THEN Append(awaiting, [at |-> "xr", vr |-> vr])
                       ELSE awaiting
        /\ log' = [EmptyLog EXCEPT !.onCollect = IF restarts THEN <<0>> ELSE <<>>,
                                   !.event = "boot"]
  /\ Taken
  /\ UNCHANGED <<variant, scene, initialized, xrPressed, lastTriggerState, timers, move, boost,
                 orbitAngle, zonePos, sinceFrame, frames, script>>

\* boot() goes on after `await sceneManager.init()`: initialized = true,
\* sceneManager.start(), started = true, and in mode 'vr' the next await
BootResume ==
  /\ \E i \in 1..Len(awaiting) :
       /\ awaiting[i].at = "init"
       /\ \A j \in 1..(i - 1) : awaiting[j].at # "init"
       /\ awaiting' = IF awaiting[i].vr THEN [awaiting EXCEPT ![i].at = "xr"]
                      ELSE SubSeq(awaiting, 1, i - 1) \o SubSeq(awaiting, i + 1, Len(awaiting))
  /\ initialized' = TRUE
  /\ remainingTime' = roundDuration
  /\ roundEnded' = FALSE
  /\ looping' = TRUE
  /\ started' = TRUE
  /\ log' = [EmptyLog EXCEPT !.event = "resume"]
  /\ UNCHANGED <<variant, scene, initCalls, loadedCount, xrPressed, lastTriggerState, mesh, meshes,
                 timers, active, currentTarget, heldMesh, move, boost, collected, orbitAngle,
                 zonePos, sinceFrame, frames, script, pc, inputs>>

\* navigator.xr.requestSession resolves: startXRSession moves the world down
\* by 4.5, and the boot() that awaited it goes on (started = true)
XRSessionStarted ==
  /\ May("xrReady")
  /\ awaiting # <<>> /\ awaiting[1].at = "xr"
  /\ LET w == moveAll(World, Vec(0, -45, 0))
     IN mesh' = w.mesh
  /\ zonePos' = [c \in Collectors |-> VAdd(zonePos[c], Vec(0, -45, 0))]
  /\ awaiting' = Tail(awaiting)
  /\ started' = TRUE
  /\ Taken
  /\ log' = [EmptyLog EXCEPT !.event = "xrReady"]
  /\ UNCHANGED <<variant, scene, initialized, initCalls, looping, loadedCount, xrPressed,
                 lastTriggerState, meshes, timers, active, currentTarget, heldMesh, move, boost,
                 collected, remainingTime, roundEnded, orbitAngle, sinceFrame, frames, script>>

\* SceneManager.start() called by boot() once a round has ended
Start ==
  /\ May("start")
  /\ scene = "collectors"
  /\ roundEnded
  /\ ~started /\ initialized
  /\ remainingTime' = roundDuration
  /\ roundEnded' = FALSE
  /\ started' = TRUE
  /\ Taken
  /\ log' = [EmptyLog EXCEPT !.event = "start"]
  /\ UNCHANGED <<variant, scene, initialized, initCalls, awaiting, looping, loadedCount, xrPressed, lastTriggerState, mesh, meshes, timers, active, currentTarget, heldMesh, move, boost,
                 collected, orbitAngle, zonePos, sinceFrame, frames, script>>

\* SceneManager.restartRound()
RestartRound ==
  /\ May("restart")
  /\ scene = "collectors"
  /\ roundEnded
  /\ \E k \in (IF Free THEN Layouts ELSE {script[pc].arg}) :
       LET w == reset(World, Layout(k))
       IN /\ mesh' = w.mesh
          /\ meshes' = w.meshes
  /\ roundEnded' = FALSE
  /\ remainingTime' = roundDuration
  /\ collected' = 0
  /\ Taken
  /\ log' = [EmptyLog EXCEPT !.onCollect = <<0>>, !.event = "restart"]
  /\ UNCHANGED <<variant, scene, initialized, started, initCalls, awaiting, looping, loadedCount, xrPressed, lastTriggerState, timers, active, currentTarget, heldMesh, move, boost, orbitAngle, zonePos,
                 sinceFrame, frames, script>>

Next ==
  \/ Tick \/ MouseDown \/ MouseUp \/ KeyDown \/ KeyUp \/ RespawnTimer \/ Start \/ RestartRound
  \/ Activate \/ Deactivate \/ ThrowHeldObject \/ MouseMove
  \/ TextureLoaded \/ TextureFailed \/ Gamepad
  \/ Boot \/ BootResume \/ XRSessionStarted

Spec == Init /\ [][Next]_vars

\* the steps of the user
UserStep ==
  \/ MouseDown \/ MouseUp \/ KeyDown \/ KeyUp \/ Start \/ RestartRound
  \/ Activate \/ Deactivate \/ ThrowHeldObject \/ MouseMove \/ Gamepad
  \/ Boot \/ XRSessionStarted

\* the callbacks of the texture loader
LoaderStep == TextureLoaded \/ TextureFailed

\* Weak fairness of Tick, written with its guard: Tick is enabled exactly when
\* TickEnabled holds, because frame() is defined for every world and a Tick
\* step changes frames.
TickFair == []<>(~TickEnabled) \/ []<><<Tick>>_vars

\* the scripted steps: the user's and the texture loader's
ScriptStep == UserStep \/ LoaderStep

\* Weak fairness of ScriptStep, written with its guard: in a scripted session
\* ScriptStep is enabled exactly when an event of the script is due and no
\* microtask is pending (every handler accepts the event the script sends it,
\* and the step moves pc).
ScriptFair == []<>(~(Due /\ ~Microtask)) \/ []<><<ScriptStep>>_vars

\* A scripted session in which the frame loop (requestAnimationFrame) keeps
\* running, the event loop runs a setTimeout callback that is due and the
\* microtask that resumes boot(), and the user and the texture loader make the
\* scripted moves.
FairSpec ==
  ScriptedInit /\ [][Next]_vars /\ TickFair /\ ScriptFair
  /\ WF_vars(RespawnTimer) /\ WF_vars(BootResume)

(***************************************************************************)
(* Properties                                                              *)
(***************************************************************************)
\* every debris id a session can create: the first #populate and one reset()
MeshIds == 1..(2 * count)
Ineligible == {"pulled", "held", "falling", "respawning"}

\* the capture test of the running scene collects a debris like d
captures(d) ==
  IF scene = "pit" THEN ~pitSkips(d) /\ inPit(d)
  ELSE eligible(d) /\ \E c \in Collectors : checkCollision(zonePos'[c], d)

\* C1: in one run of the capture test, every debris the test is to collect is
\* handled exactly once: it leaves the active set once, collected grows by one
\* for it, and onCollect is raised once with the new total; afterwards the
\* field holds no debris the test would collect.  The loop over the zones
\* handles a debris once even when every zone contains it.
C1_HandledOnce ==
  [][ /\ log'.tested =>
           LET cap == log'.captured
           IN /\ \A i, j \in 1..Len(cap) : cap[i][1] = cap[j][1] => i = j
              /\ \A i \in 1..Len(cap) : /\ cap[i][1] \in Range(meshes)
                                        /\ cap[i][1] \notin Range(meshes')
              /\ Len(meshes') = Len(meshes) - Len(cap)
              /\ collected' = collected + Len(cap)
              /\ log'.onCollect = [i \in 1..Len(cap) |-> collected + i]
              /\ \A m \in Range(meshes') : ~captures(mesh'[m])
      /\ \A m \in Range(meshes) :
           eligible(mesh[m]) =>
             LET w == collide([World EXCEPT !.zonePos = [c \in Collectors |-> mesh[m].position]],
                              m, 1)
             IN /\ w.collected = collected + 1
                /\ w.log.onCollect = <<collected + 1>>
                /\ Len(w.meshes) = Len(meshes) - 1
                /\ m \notin Range(w.meshes) ]_vars

\* a capture test has just collected a debris
C1_Witness == log.tested /\ Len(log.captured) >= 1 /\ collected >= 1

\* C2: a thrown debris is collected only when at least throwCooldown ms have
\* passed since its throw.
C2_ThrownImmune ==
  \A i \in 1..Len(log.captured) :
    log.captured[i][2] = "thrown" => log.captured[i][3] >= throwCooldown

\* C3: a debris that is pulled, held, falling or respawning is never collected:
\* what a capture test hands to #handleCollection is floating or thrown.
C3_IneligibleNeverCaptured ==
  \A i \in 1..Len(log.captured) : log.captured[i][2] \notin Ineligible

\* C4: in a frame each debris is written by at most one of field physics, the
\* pull of the laser and the carrier; the field writes floating, falling and
\* thrown debris, the laser pulled debris, the carrier held debris.
C4_SingleWriter ==
  /\ \A e1, e2 \in log.writes : e1[1] = e2[1] => e1[2] = e2[2]
  /\ \A e \in log.writes :
       \/ e[2] = "field" /\ e[3] \in {"floating", "falling", "thrown"}
       \/ e[2] = "laser" /\ e[3] = "pulled"
       \/ e[2] = "player" /\ e[3] = "held"

\* C5: the laser never acquires a respawning debris: a debris leaves
\* respawning only through its respawn callback.
C5_RespawningUntouched == \A e \in log.acquired : e[2] # "respawning"

\* C6: attachCargo makes a debris held only when it was pulled and closer to
\* the hand than attachDistance.
C6_HeldOnlyFromPulled ==
  \A e \in log.attached : e[2] = "pulled" /\ e[3] < attachDistance * attachDistance

\* C7: at most one debris is held, and it is the one Player.heldMesh refers to.
C7_AtMostOneHeld ==
  /\ Cardinality({ m \in DOMAIN mesh : mesh[m].state = "held" }) <= 1
  /\ \A m \in DOMAIN mesh : mesh[m].state = "held" => heldMesh = m

\* the laser has a second debris as its target while one is held
C7_Witness ==
  /\ heldMesh # 0 /\ mesh[heldMesh].state = "held"
  /\ currentTarget # 0 /\ currentTarget # heldMesh

\* C8: attachCargo with a debris other than the held one changes nothing: the
\* slot, and every debris's state, velocity and position, stay as they were.
C8_AttachRejected ==
  \A m \in DOMAIN mesh :
    (heldMesh # 0 /\ heldMesh # m) =>
      LET w == attachCargo(World, m)
      IN /\ w.heldMesh = heldMesh
         /\ w.mesh = mesh
         /\ w.meshes = meshes
         /\ w.currentTarget = currentTarget
         /\ w.log.attached = {}

\* the laser has just called attachCargo with a second debris while one was held
C8_Witness == heldMesh # 0 /\ \E e \in log.rejected : e[2] = heldMesh /\ e[1] # heldMesh

\* the respawn callback of debris m has just run and left it floating, at rest,
\* in the spawn annulus and the elevation band
Spawned(m) ==
  LET d == mesh[m]
      r2 == d.position.x * d.position.x + d.position.z * d.position.z
  IN /\ log.fired = m
     /\ d.state = "floating"
     /\ d.velocity = Zero
     /\ r2 >= (innerRadius + 30) * (innerRadius + 30)
     /\ r2 <= (innerRadius + 130) * (innerRadius + 130)
     /\ d.position.y >= 60 /\ d.position.y <= 120

\* C9: a debris that field physics moves below killHeight is respawning at the
\* end of that frame with its callback pending, and every respawning debris is
\* eventually put back by the callback: floating, at rest, in the spawn annulus
\* (innerRadius + 3 to innerRadius + 13) at a height of 6 to 12.
C9_RespawnRoundTrip ==
  /\ [][ \A e \in log'.writes :
           (e[2] = "field" /\ mesh'[e[1]].position.y < killHeight) =>
             /\ mesh'[e[1]].state = "respawning"
             /\ \E i \in 1..Len(timers') : timers'[i].mesh = e[1] ]_vars
  /\ \A m \in MeshIds :
       (m \in DOMAIN mesh /\ mesh[m].state = "respawning") ~> (m \in DOMAIN mesh /\ Spawned(m))

\* a debris that fell below killHeight has been put back by its callback
C9_Witness ==
  \E m \in DOMAIN mesh : Spawned(m)

\* C10: no respawning debris is the laser's target or the held debris.
C10_NoStaleOwner ==
  /\ \A m \in DOMAIN mesh :
       mesh[m].state = "respawning" => (currentTarget # m /\ heldMesh # m)
  /\ \A e \in log.respawned : e[2] # e[1] /\ e[3] # e[1]

\* C11: from the first #populate on, at every frame boundary the debris
\* collected so far in the round and the debris in the active set add up to
\* count, the number the field is populated with; no debris is in the active
\* set twice.
C11_Conservation ==
  mesh # <<>> =>
    /\ collected + Len(meshes) = count
    /\ Cardinality(Range(meshes)) = Len(meshes)

\* C12: while the laser has a target X, a ray hit on another debris Y is
\* ignored: LaserTool.update leaves Y as it was and acquires nothing, and
\* currentTarget stays X or becomes null (X released or handed to attachCargo).
\* A debris is acquired only by an update that began without a target: the
\* frame began without one, or #processXRInput released it before the update.
C12_OtherHitIgnored ==
  [][ /\ (currentTarget # 0 /\ log'.hit # 0 /\ log'.hit # currentTarget) =>
           /\ log'.acquired = {}
           /\ currentTarget' \in {currentTarget, 0}
      /\ \A e \in log'.acquired :
           currentTarget = 0 \/ \E i \in 1..Len(log'.xr) : log'.xr[i] = "deactivate"
      /\ (active /\ currentTarget # 0) =>
           \A y \in Range(meshes) \ {currentTarget} :
             LET w == laserUpdate(World, clampDelta(sinceFrame), y)
             IN /\ w.mesh[y] = mesh[y]
                /\ w.currentTarget \in {currentTarget, 0}
                /\ w.log.acquired = {} ]_vars

\* the ray has just hit another debris while the laser kept pulling its target
C12_Witness ==
  /\ currentTarget # 0 /\ mesh[currentTarget].state = "pulled"
  /\ log.hit # 0 /\ log.hit # currentTarget
  /\ log.acquired = {}
  /\ \E e \in log.writes : e[1] = currentTarget /\ e[2] = "laser"

\* C13: the laser never acquires the held debris: no acquisition finds its
\* debris in state held.
C13_HeldNotAcquired == \A e \in log.acquired : e[2] # "held"

\* C14: after the laser is deactivated (mouse-up, or deactivate()) it has no
\* target, a target that was still pulled is floating, and a debris the same
\* event threw is in state thrown.
C14_DeactivationReleases ==
  log.event \in {"up", "deactivate"} =>
    /\ currentTarget = 0
    /\ \A e \in log.released : e[2] = "pulled" => mesh[e[1]].state = "floating"
    /\ log.thrown # 0 => mesh[log.thrown].state = "thrown"

\* C15: every throw, on the mouse-up path and on the grip path, leaves the
\* debris in state thrown with a velocity of the throw strength, stamps the
\* time of the throw on it (thrownTime) and empties the carrier slot.
C15_ThrowStamped ==
  log.thrown # 0 =>
    LET d == mesh[log.thrown]
        strength == IF log.event = "grip" THEN gripThrowStrength ELSE mouseThrowStrength
    IN /\ heldMesh = 0
       /\ d.state = "thrown"
       /\ LenSq(d.velocity) <= strength * strength
       /\ LenSq(d.velocity) >= (strength - 2) * (strength - 2)
       /\ d.thrownTime = 0

\* C16: the frame runs targeting before field physics and the capture test
\* after it: a debris the laser acquires in a frame is not moved by field
\* physics in that frame.
C16_AcquiredNotIntegrated ==
  \A e \in log.acquired : \A f \in log.writes : ~(f[1] = e[1] /\ f[2] = "field")

\* C17: in a frame with a world offset d every debris of the active set that
\* nothing else writes is displaced by d, and every zone centre is displaced
\* by d on top of its orbit motion, so that the offset cancels in the
\* displacement between a debris and a zone.
C17_SameOffset ==
  [][ (log'.tested /\ log'.offset # Zero) =>
        /\ \A m \in Range(meshes) :
             (\A e \in log'.writes : e[1] # m) =>
               mesh'[m].position = VAdd(mesh[m].position, log'.offset)
        /\ \A c \in Collectors :
             VSub(zonePos'[c], zonePos[c]) =
               VAdd(VSub(animatePosition(c, orbitAngle'[c], 0),
                         animatePosition(c, orbitAngle[c], 0)),
                    log'.offset) ]_vars

\* C18: after start() and after restartRound() the round is fresh: collected
\* is 0, the whole round duration remains, and the active set holds count
\* debris, each floating, at rest, at its spawn height and never thrown.
C18_FreshRound ==
  log.event \in {"start", "restart"} =>
    /\ collected = 0
    /\ remainingTime = roundDuration
    /\ ~roundEnded
    /\ Len(meshes) = count
    /\ \A m \in Range(meshes) :
         /\ mesh[m].state = "floating"
         /\ mesh[m].velocity = Zero
         /\ mesh[m].position.y = mesh[m].baseHeight
         /\ mesh[m].thrownTime = -1

\* C19: the respawn callback changes only debris of the active set: a debris
\* that reset() or a capture removed is left alone.
C19_CallbackOnlyActive == log.fired # 0 => log.fired \in Range(meshes)

\* C20: a throw with an empty carrier slot does nothing: throwCargo and
\* throwHeldObject return the world unchanged, the grip event changes no
\* debris, and the mouse-up event changes at most the state of the released
\* target; no debris is stamped and the slot stays empty.
C20_EmptyThrowNoOp ==
  [][ heldMesh = 0 =>
        /\ \A dir \in ThrowDirections :
             /\ throwCargo(World, dir, mouseThrowStrength) = World
             /\ throwCargo(World, dir, gripThrowStrength) = World
             /\ throwHeldObject(World, dir) = World
        /\ log'.event = "grip" => (mesh' = mesh /\ heldMesh' = 0 /\ log'.thrown = 0)
        /\ log'.event = "up" =>
             /\ heldMesh' = 0 /\ log'.thrown = 0
             /\ \A m \in DOMAIN mesh :
                  /\ mesh'[m].velocity = mesh[m].velocity
                  /\ mesh'[m].thrownTime = mesh[m].thrownTime
                  /\ mesh'[m].state # "thrown" \/ mesh[m].state = "thrown"
                  /\ m # currentTarget => mesh'[m] = mesh[m] ]_vars

\* the grip was pressed, or the mouse button released, with an empty hand
\* while the laser had a target
C20_Witness ==
  /\ log.event \in {"grip", "up"} /\ log.thrown = 0 /\ heldMesh = 0
  /\ log.event = "up" => log.released # {}

\* C21: #releaseTarget without a target changes nothing and leaves the target
\* null; attachCargo with the debris that is already held leaves the slot and
\* every debris, the held one and its state included, as they were.
C21_Idempotent ==
  /\ currentTarget = 0 => releaseTarget(World) = World
  /\ (log.event \in {"up", "deactivate"} /\ log.released = {}) =>
       (currentTarget = 0 /\ log.writes = {})
  /\ (heldMesh # 0 /\ mesh[heldMesh].state = "held") =>
       LET w == attachCargo(World, heldMesh)
       IN /\ w.heldMesh = heldMesh
          /\ w.mesh = mesh
          /\ w.meshes = meshes
          /\ w.currentTarget = currentTarget

\* the laser was deactivated without a target while a debris is held
C21_Witness ==
  /\ log.event = "deactivate" /\ log.released = {}
  /\ currentTarget = 0
  /\ heldMesh # 0 /\ mesh[heldMesh].state = "held"

\* C22: the capture callback carries three values, the collected count, the
\* combo count and the combo multiplier.
C22_ComboReported ==
  log.captured # <<>> => Len(onCollectArgs(World)) = 3

\* C23: in every frame the delta passed to the player, collector, laser and
\* field updates is at most the maximum step, whatever the wall-clock time
\* since the previous frame; the round timer and the collectors' orbit advance
\* by no more than one maximum step per frame.
C23_DeltaClamped ==
  [][ frames' # frames =>
        /\ log'.delta <= maxDelta
        /\ log'.delta <= log'.wall
        /\ remainingTime - remainingTime' <= maxDelta
        /\ \A c \in Collectors :
             (orbitAngle'[c] - orbitAngle[c]) % 6283 <= TDiv(maxDelta * orbitSpeed, 1000) ]_vars

\* a full frame has run 70 ms after the previous one
C23_Witness ==
  /\ log.wall > maxDelta
  /\ log.delta = maxDelta
  /\ log.tested

\* C24: every debris in state pulled is the laser's current target: no debris
\* is pulled while currentTarget is null or another debris.
C24_PulledIsTarget ==
  \A m \in Range(meshes) : mesh[m].state = "pulled" => currentTarget = m

\* C25: at the end of every frame, currentTarget and heldMesh are each null or
\* a debris of the field's active set, after restartRound()/reset() and after
\* captures too.
C25_ReferencesActive ==
  log.tested =>
    /\ currentTarget = 0 \/ currentTarget \in Range(meshes)
    /\ heldMesh = 0 \/ heldMesh \in Range(meshes)

\* C26: at most one respawn callback is pending for any debris: respawn() is
\* never called for a debris whose callback is still pending.
C26_OnePendingRespawn ==
  \A i, j \in 1..Len(timers) : timers[i].mesh = timers[j].mesh => i = j

\* C27: the active set never holds more than count debris, however the three
\* texture callbacks (success or error) interleave with reset(); once all
\* three callbacks have run the field has been populated.
C27_PopulatedOnce ==
  /\ Len(meshes) <= count
  /\ loadedCount = 3 => mesh # <<>>

\* C28: while a round stays ended, from the frame that ended it to the next
\* start or restart, the collected count does not change and no debris is
\* captured.
C28_EndedRoundFrozen ==
  [][ (roundEnded /\ roundEnded') =>
        (collected' = collected /\ log'.captured = <<>>) ]_vars

C30_EdgeTriggered ==
  [][ (frames' # frames /\ ~log'.roundEnd) =>
        /\ (log.delta > 0 /\ ~log.roundEnd) => log'.xr = <<>>
        /\ (\E i \in DOMAIN xrPressed : xrPressed[i]) => active' ]_vars

\* C31: whatever the sequence of boot() invocations, a second one starting
\* while the first is suspended at an await included, sceneManager.init() runs
\* at most once.
C31_InitOnce == initCalls <= 1

\* boot() has been invoked while an earlier invocation was suspended at an
\* await, after init() ran
C31_Witness ==
  /\ log.event = "boot" /\ awaiting # <<>>
  /\ initCalls = 1 /\ initialized
  /\ \E i \in 1..(pc - 2) : script[i].ev = "boot"

\* the debris GarbageField.update processes over the pit: not owned, and
\* nearer to the field centre than the pit radius
OverPit(m) ==
  /\ mesh[m].state \in {"floating", "falling", "thrown"}
  /\ InWorld(mesh[m])
  /\ mesh[m].position.x * mesh[m].position.x + mesh[m].position.z * mesh[m].position.z
       < innerRadius * innerRadius

\* C32 as stated: after the field has processed a debris over the pit, its
\* state is falling, or thrown if it was thrown.
C32_FallingInPit ==
  \A m \in Range(meshes) : \A sinv \in SinSamples :
    OverPit(m) =>
      updateOne(World, m, clampDelta(sinceFrame), sinv).mesh[m].state =
        (IF mesh[m].state = "thrown" THEN "thrown" ELSE "falling")

\* C32, amended: after the field has processed a debris over the pit, its
\* state is respawning if the step took it below the kill height, and else
\* falling, or thrown if it was thrown; the field never turns a thrown debris
\* into a falling one, over the pit or over the platform.
C32_FallingOrRespawning ==
  \A m \in Range(meshes) : \A sinv \in SinSamples :
    LET d == updateOne(World, m, clampDelta(sinceFrame), sinv).mesh[m]
    IN /\ OverPit(m) =>
            d.state = (IF d.position.y < killHeight THEN "respawning"
                       ELSE IF mesh[m].state = "thrown" THEN "thrown" ELSE "falling")
       /\ mesh[m].state = "thrown" => d.state # "falling"

\* the field has just processed a thrown debris over the pit, and a floating
\* or falling one
C32_Witness ==
  \E m \in Range(meshes) :
    /\ OverPit(m)
    /\ <<m, "field", "thrown">> \in log.writes
    /\ mesh[m].state = "thrown"

\* the ways into and out of state thrown, as steps of the program
EntersThrown(m) ==
  m \in DOMAIN mesh' /\ mesh[m].state # "thrown" /\ mesh'[m].state = "thrown"
LeavesThrown(m) ==
  /\ m \in Range(meshes) /\ mesh[m].state = "thrown"
  /\ (m \notin Range(meshes') \/ mesh'[m].state # "thrown")
\* the field found the debris outside the pit radius with a speed below 0.1
\* and made it floating, with the height it then had as its baseline
Settles(m) ==
  LET p == VAdd(mesh[m].position, log'.offset)
  IN /\ m \in Range(meshes') /\ mesh'[m].state = "floating"
     /\ <<m, "field", "thrown">> \in log'.writes
     /\ p.x * p.x + p.z * p.z >= innerRadius * innerRadius
     /\ LenSq(mesh'[m].velocity) < 1
     /\ mesh'[m].baseHeight = p.y
Acquired(m) == m \in Range(meshes') /\ <<m, "thrown">> \in log'.acquired
Killed(m) ==
  /\ m \in Range(meshes') /\ mesh'[m].state = "respawning"
  /\ mesh'[m].position.y < killHeight
Collected(m) ==
  /\ m \notin Range(meshes')
  /\ \E i \in 1..Len(log'.captured) : log'.captured[i][1] = m

\* C33 as stated: a debris enters state thrown only from state held, through
\* a throw, and leaves it only by settling to floating (outside the pit
\* radius, speed below 0.1, baseHeight set to its height), by being acquired
\* by the laser, by falling below killHeight (respawning), or by being
\* collected (removed).
C33_ThrownLifecycle ==
  [][ \A m \in DOMAIN mesh :
        /\ EntersThrown(m) => (mesh[m].state = "held" /\ log'.thrown = m)
        /\ LeavesThrown(m) => (Settles(m) \/ Acquired(m) \/ Killed(m) \/ Collected(m)) ]_vars

\* C33, amended: the same, and a thrown debris also leaves the state when the
\* whole field is discarded by reset() at the restart of a round.
C33_ThrownLifecycleOrReset ==
  [][ \A m \in DOMAIN mesh :
        /\ EntersThrown(m) => (mesh[m].state = "held" /\ log'.thrown = m)
        /\ LeavesThrown(m) =>
              \/ Settles(m) \/ Acquired(m) \/ Killed(m) \/ Collected(m)
              \/ /\ log'.event \in {"restart", "boot"}
                 /\ Range(meshes') \cap Range(meshes) = {} ]_vars

\* a thrown debris has just settled, far above its old baseline
C33_Witness ==
  \E m \in Range(meshes) :
    /\ <<m, "field", "thrown">> \in log.writes
    /\ mesh[m].state = "floating"
    /\ mesh[m].baseHeight > 120

\* A falling debris on a course that update never ends: off the pit, at a
\* speed of at least 0.5, at or above the platform top, not sinking and not
\* coming nearer to the centre.  update leaves the velocity of a falling debris
\* off the pit as it is (GarbageField.js 94-100), so the debris goes on in a
\* straight line: it never comes over the pit, never meets the platform and
\* never reaches killHeight.
Escaped(m) ==
  LET d == mesh[m]
  IN /\ d.state = "falling"
     /\ d.position.x * d.position.x + d.position.z * d.position.z >= innerRadius * innerRadius
     /\ LenSq(d.velocity) >= 5 * 5
     /\ d.position.y >= platformTop /\ d.velocity.y >= 0
     /\ d.position.x * d.velocity.x + d.position.z * d.velocity.z >= 0

\* once a debris has escaped, every frame in which the player stands still and
\* the laser does not take it leaves it escaped
EscapedIsFinal ==
  [][ \A m \in Range(meshes) :
        (/\ Escaped(m) /\ frames' = frames + 1 /\ move = Zero
         /\ m \in Range(meshes') /\ \A e \in log'.acquired : e[1] # m) => Escaped(m)' ]_vars

\* C34: no debris stays falling for ever: a falling debris that the laser
\* never acquires becomes floating or respawning.  In the form a finite run
\* refutes: with the player standing still, no debris is falling on a course
\* that never ends.
C34_FallingEnds == \A m \in Range(meshes) : ~(move = Zero /\ Escaped(m))

\* squared distance of a debris from the hand anchor
HandDistSq(d) == LenSq(VSub(getHandWorldPosition, d.position))

\* C35: while the laser stays active, the carrier slot is empty and the player
\* stands still, every frame either attaches the pulled target (when it is
\* nearer to the hand than attachDistance) or brings it strictly nearer to the
\* hand and leaves it pulled: the distance falls in every frame until the
\* target is held, so the pull step never carries the target to and fro
\* around the hand.
C35_PullConverges ==
  [][ \A m \in Range(meshes) :
        (/\ frames' = frames + 1 /\ ~log'.roundEnd
         /\ active /\ active' /\ heldMesh = 0 /\ move = Zero
         /\ currentTarget = m /\ mesh[m].state = "pulled") =>
          IF HandDistSq(mesh[m]) < attachDistance * attachDistance
          THEN heldMesh' = m /\ mesh'[m].state = "held" /\ currentTarget' = 0
          ELSE /\ currentTarget' = m /\ mesh'[m].state = "pulled" /\ heldMesh' = 0
               /\ HandDistSq(mesh'[m]) < HandDistSq(mesh[m]) ]_vars

\* the pull of part_003 has just carried the target past the hand, to a
\* point within attachDistance of it
C35_Witness ==
  /\ variant = "xr" /\ active /\ heldMesh = 0 /\ currentTarget # 0
  /\ <<currentTarget, "laser", "pulled">> \in log.writes
  /\ mesh[currentTarget].state = "pulled"
  /\ mesh[currentTarget].position.x > getHandWorldPosition.x
  /\ HandDistSq(mesh[currentTarget]) < attachDistance * attachDistance

====
